---- MODULE Spec2Model ----
(***************************************************************************)
(* Logging::LoggerFacade (src/loggerfacade.cpp, src/loggerfacade.h) and    *)
(* the application of src/main.cpp, as a state machine.                    *)
(*                                                                         *)
(* Threads: "main" calls the facade (initialize, getLogger, setLogLevel,   *)
(* shutdown) and logs through the handle; "app" is a second producer that  *)
(* only logs; "worker" is the one thread of the pool created by            *)
(* spdlog::init_thread_pool(8192, 1).  The spdlog calls the facade makes   *)
(* are modelled by what the library does with them: a bounded blocking     *)
(* FIFO, one record dequeued at a time, each sink asked should_log() in    *)
(* turn, spdlog::shutdown() dropping the default logger and joining the    *)
(* worker.                                                                 *)
(*                                                                         *)
(* Strings the code parses are sequences of one-character strings.  The    *)
(* mode names are abbreviated to one character: "n" (none), "f" (file),    *)
(* "w" (network); every other token is a mode name the code does not know. *)
(***************************************************************************)
EXTENDS Integers, Sequences, FiniteSets, TLC

\* ------------------------------------------------------------------ bounds
\* Records the main thread may submit in one run of the pipeline.
MaxRecords == 1
\* Facade calls the main thread may make in one run.
MaxCalls == 3
\* Capacity of the pool's queue (8192 in the code, loggerfacade.cpp:208).
QueueSize == 2

\* v, evaluated once, handed to F.
With(v, F(_)) == CHOOSE y \in {F(x) : x \in {v}} : TRUE

\* ------------------------------------------------------------- level enum
\* spdlog::level::level_enum, in order.
LevelNames == <<"trace", "debug", "info", "warn", "err", "critical", "off">>

Rank(l) == CHOOSE i \in 1..Len(LevelNames) : LevelNames[i] = l

\* sink::should_log / logger::should_log: msg_level >= level_.
ShouldLog(msgLevel, threshold) == Rank(msgLevel) >= Rank(threshold)

\* spdlog::level::from_str: the seven names, the aliases "warning" and
\* "error", and off for every other string.
from_str(name) ==
    IF \E i \in 1..Len(LevelNames) : LevelNames[i] = name THEN name
    ELSE IF name = "warning" THEN "warn"
    ELSE IF name = "error" THEN "err"
    ELSE "off"

\* ------------------------------------------------------------ environment
\* A variable of the environment: unset (getenv returns NULL) or a value.
Unset(v) == [set |-> FALSE, val |-> v]
Value(v) == [set |-> TRUE, val |-> v]

RECURSIVE SplitModes(_, _, _)
\* The getline(ss, mode, ',') loop of loadFromEnv: tokens between commas,
\* empty tokens skipped.
SplitModes(s, cur, acc) ==
    IF s = << >>
    THEN IF cur # << >> THEN Append(acc, cur) ELSE acc
    ELSE IF Head(s) = ","
         THEN SplitModes(Tail(s), << >>,
                         IF cur # << >> THEN Append(acc, cur) ELSE acc)
         ELSE SplitModes(Tail(s), Append(cur, Head(s)), acc)

ModeNone == <<"n">>
ModeFile == <<"f">>
ModeNetwork == <<"w">>

\* config.logModes without the default of lines 120-122.
LogModes_NoDefault(v) ==
    IF v.set THEN SplitModes(v.val, << >>, << >>) ELSE << >>

\* config.logModes after lines 108-122.
LogModes(v) ==
    LET parsed == IF v.set THEN SplitModes(v.val, << >>, << >>) ELSE << >>
    IN IF parsed = << >> THEN <<ModeNone>> ELSE parsed

Digits == <<"0", "1", "2", "3", "4", "5", "6", "7", "8", "9">>
IsDigit(c) == \E i \in 1..Len(Digits) : Digits[i] = c
DigitVal(c) == (CHOOSE i \in 1..Len(Digits) : Digits[i] = c) - 1

RECURSIVE DigitPrefix(_, _, _)
\* The digits std::stoi consumes: [n |-> how many, val |-> their value].
DigitPrefix(s, n, val) ==
    IF s = << >> \/ ~IsDigit(Head(s)) THEN [n |-> n, val |-> val]
    ELSE DigitPrefix(Tail(s), n + 1, val * 10 + DigitVal(Head(s)))

RECURSIVE SkipSpace(_)
SkipSpace(s) == IF s # << >> /\ Head(s) = " " THEN SkipSpace(Tail(s)) ELSE s

\* std::stoi: leading blanks, an optional sign, the longest run of digits;
\* trailing characters are ignored.  It throws std::invalid_argument when
\* there is no digit and std::out_of_range outside int (the values the
\* environments here hold have at most nine digits).
Stoi(str) ==
    LET s == SkipSpace(str)
        neg == s # << >> /\ Head(s) = "-"
        body == IF s # << >> /\ Head(s) \in {"-", "+"} THEN Tail(s) ELSE s
        p == DigitPrefix(body, 0, 0)
        v == IF neg THEN 0 - p.val ELSE p.val
    IN [ok |-> p.n > 0 /\ v >= -2147483647 - 1 /\ v <= 2147483647, val |-> v]

\* static_cast<uint16_t>(int).
ToUint16(v) == v % 65536

\* LoggerConfig's defaults (loggerfacade.h:41-47; the size and the count of
\* files are the "5MB, 3 files" of loggerfacade.cpp:256).
DefaultFileSizeMb == 5
DefaultNumberOfLogFiles == 3
\* A pattern is the sequence of its flags and the text between them.
DefaultPattern ==
    <<"%Y-%m-%d %H:%M:%S.%e", " [", "%n", "] [", "%l", "] ", "%v">>

\* A size or count variable (lines 134-160): the value if it parses to a
\* positive int, else the default with a warning.
PositiveOr(v, default) ==
    IF ~v.set THEN [val |-> default, warn |-> FALSE]
    ELSE LET r == Stoi(v.val)
         IN IF r.ok /\ r.val > 0 THEN [val |-> r.val, warn |-> FALSE]
            ELSE [val |-> default, warn |-> TRUE]

\* LOG_NETWORK_PORT (lines 162-169): any int stoi returns, cast to uint16_t.
PortOf(v) ==
    IF ~v.set THEN [val |-> 0, warn |-> FALSE]
    ELSE LET r == Stoi(v.val)
         IN IF r.ok THEN [val |-> ToUint16(r.val), warn |-> FALSE]
            ELSE [val |-> 0, warn |-> TRUE]

\* LOG_UDP_FORMAT (lines 181-189).
UdpFormatOf(v) ==
    IF ~v.set THEN [val |-> "json", warn |-> FALSE]
    ELSE IF v.val \in {"json", "plain"} THEN [val |-> v.val, warn |-> FALSE]
    ELSE [val |-> "json", warn |-> TRUE]

\* LoggerConfig::loadFromEnv.  warnings is the number of spdlog::warn calls
\* it makes, all through the process-wide default logger.
loadFromEnv(e) ==
    LET size == PositiveOr(e.LOG_FILE_SIZE_MB, DefaultFileSizeMb)
        count == PositiveOr(e.LOG_NIMBER_OF_LOG_FILES, DefaultNumberOfLogFiles)
        port == PortOf(e.LOG_NETWORK_PORT)
        fmt == UdpFormatOf(e.LOG_UDP_FORMAT)
    IN [logModes |-> LogModes(e.LOG_MODE),
        filePath |-> IF e.LOG_FILE_PATH.set THEN e.LOG_FILE_PATH.val ELSE "",
        networkIp |-> IF e.LOG_NETWORK_IP.set THEN e.LOG_NETWORK_IP.val ELSE "",
        fileSizeMb |-> size.val,
        numberOfLogFiles |-> count.val,
        networkPort |-> port.val,
        logLevel |-> IF e.LOG_LEVEL.set THEN e.LOG_LEVEL.val ELSE "debug",
        logPattern |-> IF e.LOG_PATTERN.set THEN e.LOG_PATTERN.val
                       ELSE DefaultPattern,
        udpFormat |-> fmt.val,
        warnings |-> Cardinality({w \in {<<1, size.warn>>, <<2, count.warn>>,
                                         <<3, port.warn>>, <<4, fmt.warn>>} :
                                  w[2]})]

\* ------------------------------------------------------------------ state
VARIABLES
    env,            \* the process environment and its network (never changed)
    flushWaits,     \* the linked spdlog's async_logger::flush(): waits or not
    isInitialized_, \* LoggerFacade::isInitialized_
    logger_,        \* LoggerFacade::logger_
    sinks_,         \* LoggerFacade::sinks_ (indices into heap)
    heap,           \* the sink objects alive
    defaultLogger,  \* spdlog's default logger: "stdout", "facade" or "null"
    queue,          \* the pool's queue
    wpc,            \* the worker: "none", "idle", "deliver", "flush", "exited"
    wcur,           \* the message the worker holds
    pc,             \* where each caller thread is
    pend,           \* the record a caller thread is submitting
    call,           \* the facade call the main thread made last
    flushReq,       \* the flush request in flight
    recs,           \* every record submitted since initialize, by id
    retd,           \* ids whose submit has returned
    done,           \* ids the pipeline has finished with
    left,           \* calls and records the threads may still make
    lastSet,        \* the setLogLevel() calls since initialize()
    crashed,        \* the process has died
    firstInit       \* what the first initialize() of the process built

vars == <<env, flushWaits, isInitialized_, logger_, sinks_, heap,
          defaultLogger, queue, wpc, wcur, pc, pend, call, flushReq, recs,
          retd, done, left, lastSet, crashed, firstInit>>

Producers == {"main", "app"}

\* Levels the application logs at and levels it passes to setLogLevel
\* (main.cpp logs debug, info, warn and trace and sets warn and trace).
RecordLevels == {"debug", "warn"}
SetLevels == {"trace", "warn"}

\* ---------------------------------------------------------------- objects
\* A null std::shared_ptr<spdlog::logger>.
NullLogger == [name |-> "", async |-> FALSE, level |-> "off", sinks |-> << >>]
Defined(l) == l.name # ""

\* A sink as constructed: sink::level_ is trace (spdlog's default) until
\* set_level; got lists the records log() was called with; flushed is how
\* many of them flush() has written out.  hist is a history variable: the
\* values sink::level_ has had since the sink was put into sinks_.  The
\* last four fields are a UdpSink's: its formatter's pattern, udp_format_,
\* the sockets it has created and the datagrams it has handed to
\* writeDatagram.
NewSink(kind) ==
    [kind |-> kind, level |-> "trace", hist |-> << >>,
     ulevel |-> "trace", got |-> << >>, flushed |-> 0,
     pattern |-> << >>, format |-> "", sockets |-> 0, sent |-> << >>]

\* sink::set_level (the base class's, which should_log() reads).
set_level(s, l) == [s EXCEPT !.level = l]

\* sinks_.push_back(sink): the object as it enters sinks_.
Pushed(s) == [s EXCEPT !.hist = <<s.level>>]

\* UdpSink::UdpSink (lines 24-31) for a host and a port that are not empty:
\* no socket yet (socket_ is null until log(), line 98).  The set_pattern
\* of line 289 reaches set_formatter (lines 83-85) with the same pattern.
UdpSink(pattern, udp_format) ==
    [NewSink("udp") EXCEPT !.pattern = pattern, !.format = udp_format]

\* spdlog::level::to_string_view: the level's full name.
to_string_view(l) ==
    IF l = "warn" THEN "warning" ELSE IF l = "err" THEN "error" ELSE l

\* A record's time as text.
Timestamp == "2025-01-01 00:00:00.000"

RECURSIVE Format(_, _, _)
\* pattern_formatter::format (lines 35-37): each flag of the pattern gives
\* the record's field, then the end of line.  A text is the sequence of its
\* pieces.
Format(pattern, rec, name) ==
    IF pattern = << >> THEN <<"\n">>
    ELSE (IF Head(pattern) = "%v" THEN rec.msg
          ELSE IF Head(pattern) = "%l" THEN <<to_string_view(rec.level)>>
          ELSE IF Head(pattern) = "%n" THEN <<name>>
          ELSE IF Head(pattern) = "%Y-%m-%d %H:%M:%S.%e" THEN <<Timestamp>>
          ELSE <<Head(pattern)>>) \o Format(Tail(pattern), rec, name)

\* A UdpSink that creates a socket for every record.
UdpSink_log_SocketEach(s, rec, name, network) ==
    [s EXCEPT !.sockets = @ + 1,
              !.sent = Append(@, [payload |-> Format(s.pattern, rec, name),
                                  rc |-> IF network = "up" THEN "sent"
                                         ELSE "failed"])]

\* UdpSink::log (lines 33-75): the formatted text, the socket created on
\* the first call, and one writeDatagram, of the JSON object or of the
\* text; its result (-1 when the datagram cannot be sent) is not looked at.
UdpSink_log(s, rec, name, network) ==
    LET text == Format(s.pattern, rec, name)
        payload == IF s.format = "json"
                   THEN [time |-> Timestamp,
                         level |-> to_string_view(rec.level),
                         logger |-> name,
                         message |-> text]
                   ELSE text
    IN [s EXCEPT !.sockets = IF @ = 0 THEN 1 ELSE @,
                 !.sent = Append(@, [payload |-> payload,
                                     rc |-> IF network = "up" THEN "sent"
                                            ELSE "failed"])]

\* UdpSink::set_level (lines 87-89): not virtual, and it writes the
\* UdpSink::level_ of line 100, which hides sink::level_.
UdpSink_set_level(s, l) == [s EXCEPT !.ulevel = l]

\* The record of line 259, written by fileSink->log() directly.
InitialTestLog == 0

\* The file system: whether lines 239-256 get through for this path.
FileWritable(path) == path = "/var/log/app.log"

NoMsg == [type |-> "none", id |-> 0, level |-> "off", idx |-> 0, dec |-> << >>]
NoPend == [id |-> 0, level |-> "off", next |-> "idle"]
NoFlush == [pending |-> FALSE, before |-> {}, cont |-> "idle"]
NoSet == [n |-> 0, level |-> "none", active |-> FALSE]
NoCall == [op |-> "none", arg |-> "", error |-> "none", idx |-> 0]
NoInit == [n |-> 0, caught |-> FALSE, kinds |-> << >>, levels |-> << >>,
           loggerLevel |-> "off", async |-> FALSE]

\* What initialize() left behind: sink kinds and thresholds in order, the
\* logger's threshold and whether it is the async logger.
Snapshot(l, ss, h, caught) ==
    [n |-> 1,
     caught |-> caught,
     kinds |-> [i \in 1..Len(ss) |-> h[ss[i]].kind],
     levels |-> [i \in 1..Len(ss) |-> h[ss[i]].level],
     loggerLevel |-> l.level,
     async |-> l.async]

\* ------------------------------------------------------------- initialize
\* Where an exception may leave the try block of initialize(): nowhere, at
\* spdlog::init_thread_pool (line 208, the worker thread cannot be started)
\* or at the construction of the logger (lines 220 and 282, std::bad_alloc).
FailPoints == {"none", "init_thread_pool", "make_logger"}

\* What a call through a null default logger (spdlog::info and the like
\* after spdlog::shutdown()) does: undefined behaviour, the process dies of
\* it or the call passes without effect.
NullDerefOutcomes == {"crash", "continue"}

\* Line 216: "none" is the only mode.
IsNoneOnly(modes) == Len(modes) = 1 /\ modes[1] = ModeNone

\* Lines 233-265, one "file" entry.
AddFileSink(cfg, lvl, acc) ==
    IF cfg.filePath = "" \/ ~FileWritable(cfg.filePath) THEN acc
    ELSE LET s == [set_level(NewSink("file"), lvl)
                   EXCEPT !.got = <<InitialTestLog>>, !.flushed = 1]
         IN [heap |-> Append(acc.heap, Pushed(s)),
             sinks |-> Append(acc.sinks, Len(acc.heap) + 1)]

\* Lines 266-277, one "network" entry.
AddUdpSink(cfg, lvl, acc) ==
    IF cfg.networkIp = "" \/ cfg.networkPort = 0 THEN acc
    ELSE [heap |-> Append(acc.heap,
                          Pushed(UdpSink_set_level(
                              UdpSink(cfg.logPattern, cfg.udpFormat), lvl))),
          sinks |-> Append(acc.sinks, Len(acc.heap) + 1)]

\* A loop over config.logModes that stops after its first turn.
ProcessModes_First(modes, cfg, lvl, acc) ==
    IF modes = << >> THEN acc
    ELSE IF Head(modes) = ModeFile THEN AddFileSink(cfg, lvl, acc)
    ELSE IF Head(modes) = ModeNetwork THEN AddUdpSink(cfg, lvl, acc)
    ELSE acc

RECURSIVE ProcessModes(_, _, _, _)
\* The loop of lines 232-279 over config.logModes.
ProcessModes(modes, cfg, lvl, acc) ==
    IF modes = << >> THEN acc
    ELSE ProcessModes(Tail(modes), cfg, lvl,
                      IF Head(modes) = ModeFile THEN AddFileSink(cfg, lvl, acc)
                      ELSE IF Head(modes) = ModeNetwork
                           THEN AddUdpSink(cfg, lvl, acc)
                           ELSE acc)

\* The none branch with line 222's push_back left out.
NoneBranch_NoPush ==
    [heap |-> <<Pushed(set_level(NewSink("null"), "off"))>>,
     sinks |-> << >>,
     logger |-> [name |-> "null_logger", async |-> FALSE, level |-> "off",
                 sinks |-> <<1>>]]

\* Lines 218-222: the null sink and its logger, both at level off.
NoneBranch ==
    [heap |-> <<Pushed(set_level(NewSink("null"), "off"))>>,
     sinks |-> <<1>>,
     logger |-> [name |-> "null_logger", async |-> FALSE, level |-> "off",
                 sinks |-> <<1>>]]

\* Lines 226-291: the console sink, the sinks of the modes, the async logger
\* over them.
SinksBranch(cfg, lvl) ==
    LET console == [heap |-> <<Pushed(set_level(NewSink("console"), lvl))>>,
                    sinks |-> <<1>>]
    IN With(ProcessModes(cfg.logModes, cfg, lvl, console), LAMBDA built :
            [heap |-> built.heap,
             sinks |-> built.sinks,
             logger |-> [name |-> "async_logger", async |-> TRUE,
                         level |-> lvl, sinks |-> built.sinks]])

\* The catch block with line 315's push_back left out.
Fallback_NoSink ==
    [heap |-> <<NewSink("null")>>,
     sinks |-> << >>,
     logger |-> [name |-> "null_logger", async |-> FALSE, level |-> "info",
                 sinks |-> <<1>>]]

\* Lines 311-316, the catch block: a logger over one null sink, and another
\* null sink in sinks_.  Neither level is set: a spdlog::logger starts at
\* info, a sink at trace.
Fallback ==
    [heap |-> <<NewSink("null"), Pushed(NewSink("null"))>>,
     sinks |-> <<2>>,
     logger |-> [name |-> "null_logger", async |-> FALSE, level |-> "info",
                 sinks |-> <<1>>]]

\* Whether the exception of fail point fail is thrown under configuration
\* cfg: line 208 is always run, line 282 only in the else branch of line 216.
Thrown(cfg, fail) ==
    \/ fail = "init_thread_pool"
    \/ fail = "make_logger" /\ ~IsNoneOnly(cfg.logModes)

\* initialize() from the uninitialized state, lines 206-317: what it leaves
\* in heap, sinks_ and logger_, whether the pool was created, whether the
\* catch block ran.
initialize(e, fail) ==
    With(loadFromEnv(e), LAMBDA cfg :
        LET lvl == from_str(cfg.logLevel)
            r == IF Thrown(cfg, fail) THEN Fallback
                 ELSE IF IsNoneOnly(cfg.logModes) THEN NoneBranch
                 ELSE SinksBranch(cfg, lvl)
        IN [heap |-> r.heap, sinks |-> r.sinks, logger |-> r.logger,
            pool |-> fail # "init_thread_pool",
            caught |-> Thrown(cfg, fail)])

\* ---------------------------------------------------------------- records
\* logger::sink_it_ of a synchronous logger: each sink that admits the level
\* gets the record, on the calling thread.
RECURSIVE DeliverAll(_, _, _, _)
DeliverAll(h, ss, id, lvl) ==
    IF ss = << >> THEN h
    ELSE DeliverAll(IF ShouldLog(lvl, h[Head(ss)].level)
                    THEN [h EXCEPT ![Head(ss)].got = Append(@, id)]
                    ELSE h,
                    Tail(ss), id, lvl)

RECURSIVE FlushAll(_, _)
\* flush() on each of the sinks: what was delivered is written out.
FlushAll(h, ss) ==
    IF ss = << >> THEN h
    ELSE FlushAll([h EXCEPT ![Head(ss)].flushed = Len(h[Head(ss)].got)],
                  Tail(ss))

\* Ids enqueued (or being enqueued by a thread other than t) and not yet
\* through the pipeline.
InFlight == {q \in retd : recs[q].passed} \ done

\* logger::log(level, msg) by thread t through the facade's logger: the
\* threshold test of logger::should_log, then sink_it_ (a post to the pool
\* for the async logger, the sinks themselves for a synchronous one).
\* next is where t goes on once the call has returned.
Submit(t, lvl, msg, next) ==
    LET id == Len(recs) + 1
        passed == ShouldLog(lvl, logger_.level)
        r == [level |-> lvl, msg |-> msg, by |-> t, after |-> retd,
              passed |-> passed,
              set |-> IF lastSet.active THEN lastSet ELSE NoSet]
    IN /\ recs' = Append(recs, r)
       /\ IF ~passed
          THEN /\ retd' = retd \cup {id}
               /\ pc' = [pc EXCEPT ![t] = next]
               /\ UNCHANGED <<pend, heap, done>>
          ELSE IF logger_.async
          THEN /\ pend' = [pend EXCEPT ![t] = [id |-> id, level |-> lvl,
                                                next |-> next]]
               /\ pc' = [pc EXCEPT ![t] = "enq"]
               /\ UNCHANGED <<retd, heap, done>>
          ELSE /\ heap' = DeliverAll(heap, logger_.sinks, id, lvl)
               /\ retd' = retd \cup {id}
               /\ done' = done \cup {id}
               /\ pc' = [pc EXCEPT ![t] = next]
               /\ UNCHANGED pend

\* A queue that takes a message whether it is full or not.
HasRoom_Always(q) == TRUE

\* mpmc_blocking_queue::enqueue under async_overflow_policy::block (line
\* 287): the caller waits until the queue is not full.
HasRoom(q) == Len(q) < QueueSize

\* thread_pool::post_log: the blocked caller gets its slot.
Enqueue(t) ==
    /\ ~crashed
    /\ pc[t] = "enq"
    /\ HasRoom(queue)
    /\ queue' = Append(queue, [type |-> "log", id |-> pend[t].id,
                               level |-> pend[t].level])
    /\ retd' = retd \cup {pend[t].id}
    /\ pc' = [pc EXCEPT ![t] = pend[t].next]
    /\ pend' = [pend EXCEPT ![t] = NoPend]
    /\ UNCHANGED <<env, flushWaits, isInitialized_, logger_, sinks_, heap,
                   defaultLogger, wpc, wcur, call, flushReq, recs, done,
                   left, lastSet, crashed, firstInit>>

\* The application logs through the handle getLogger() returns
\* (main.cpp:11-22), while the facade is initialized.
Log(t, lvl) ==
    /\ ~crashed
    /\ pc[t] = "idle"
    /\ isInitialized_
    /\ call.op # "shutdown"
    /\ left[t] > 0
    /\ left' = [left EXCEPT ![t] = @ - 1]
    /\ Submit(t, lvl, <<"test">>, "idle")
    /\ UNCHANGED <<env, flushWaits, isInitialized_, logger_, sinks_,
                   defaultLogger, queue, wpc, wcur, call, flushReq, lastSet,
                   crashed, firstInit>>

\* ------------------------------------------------------------ facade calls
\* A facade call by the main thread, which makes them one at a time.  Only
\* the calls that change something count against the calls of a run.
Calling(op, arg, error, counts) ==
    /\ ~crashed
    /\ pc["main"] = "idle"
    /\ counts => left["calls"] > 0
    /\ left' = IF counts THEN [left EXCEPT !["calls"] = @ - 1] ELSE left
    /\ call' = [op |-> op, arg |-> arg, error |-> error, idx |-> 1]

\* The main thread is back in the application.
Return(cont) ==
    /\ pc' = [pc EXCEPT !["main"] = cont]
    /\ lastSet' = IF cont = "idle" /\ lastSet.n > 0
                  THEN [lastSet EXCEPT !.active = TRUE]
                  ELSE lastSet

\* initialize() without the guard of lines 201-204: it builds the sinks and
\* a logger over them anew whatever the state.
Initialize_Again(fail, ub) ==
  /\ pc["main"] = "idle"
  /\ \E r \in {initialize(env, fail)} :
    /\ Calling("initialize", IF r.caught THEN fail ELSE "none", "none", TRUE)
    /\ heap' = r.heap
    /\ sinks_' = r.sinks
    /\ logger_' = [r.logger EXCEPT !.async = FALSE]
    /\ defaultLogger' = "facade"
    /\ isInitialized_' = TRUE
    /\ firstInit' = IF firstInit.n = 0
                    THEN Snapshot(r.logger, r.sinks, r.heap, r.caught)
                    ELSE [firstInit EXCEPT !.n = @ + 1]
    /\ UNCHANGED <<env, flushWaits, queue, wpc, wcur, pc, pend, flushReq,
                   recs, retd, done, lastSet, crashed>>

\* LoggerFacade::initialize (lines 200-318).  fail is where an exception
\* may leave the try block in this call; call.arg keeps where one did.
Initialize(fail, ub) ==
  /\ pc["main"] = "idle"
  /\ \E r \in {initialize(env, fail)} :
    /\ Calling("initialize",
               IF ~isInitialized_ /\ r.caught THEN fail ELSE "none",
               "none", TRUE)
    /\ IF isInitialized_
       THEN \* lines 201-204: the warning goes through the default logger,
            \* which line 304 made the facade's logger.
            /\ Submit("main", "warn", <<"Logger already initialized.">>,
                      "idle")
            /\ UNCHANGED <<env, flushWaits, isInitialized_, logger_, sinks_,
                           defaultLogger, queue, wpc, wcur, flushReq,
                           lastSet, crashed, firstInit>>
       ELSE IF defaultLogger = "null" /\ ub = "crash"
       THEN \* spdlog::info of line 223 or 300 (or an earlier diagnostic)
            \* dereferences the default logger spdlog::shutdown() dropped.
            /\ crashed' = TRUE
            /\ UNCHANGED <<env, flushWaits, isInitialized_, logger_, sinks_,
                           heap, defaultLogger, queue, wpc, wcur, pc, pend,
                           flushReq, recs, retd, done, lastSet, firstInit>>
       ELSE    /\ heap' = r.heap
               /\ sinks_' = r.sinks
               /\ logger_' = r.logger
               /\ defaultLogger' = "facade"
               /\ isInitialized_' = TRUE
               /\ wpc' = IF r.pool THEN "idle" ELSE "none"
               /\ firstInit' =
                    IF firstInit.n = 0
                    THEN Snapshot(r.logger, r.sinks, r.heap, r.caught)
                    ELSE [firstInit EXCEPT !.n = @ + 1]
               \* line 307, logger_->flush()
               /\ IF r.logger.async
                  THEN /\ queue' = <<[type |-> "flush", id |-> 0,
                                      level |-> "off"]>>
                       /\ flushReq' = [pending |-> TRUE, before |-> {},
                                       cont |-> "idle"]
                       /\ pc' = [pc EXCEPT !["main"] =
                                    IF flushWaits THEN "wait" ELSE "idle"]
                  ELSE /\ queue' = << >>
                       /\ flushReq' = NoFlush
                       /\ pc' = pc
               /\ UNCHANGED <<env, flushWaits, wcur, pend, recs, retd, done,
                              lastSet, crashed>>

\* The guard of lines 321-323 and 355-357 left out.
CheckInitialized_Absent(initialized) == "none"

\* The guard of lines 321-323 and 355-357: std::runtime_error("Logger not
\* initialized. Call initialize() first.") unless the facade is initialized.
CheckInitialized(initialized) ==
    IF initialized THEN "none" ELSE "not_initialized"

\* LoggerFacade::getLogger (lines 354-359).
GetLogger ==
    /\ Calling("getLogger", "", CheckInitialized(isInitialized_), FALSE)
    /\ UNCHANGED <<env, flushWaits, isInitialized_, logger_, sinks_, heap,
                   defaultLogger, queue, wpc, wcur, pc, pend, flushReq, recs,
                   retd, done, lastSet, crashed, firstInit>>

\* LoggerFacade::setLogLevel, lines 320-326: the guard, then
\* logger_->set_level(level).
SetLogLevel(l) ==
    /\ Calling("setLogLevel", l, CheckInitialized(isInitialized_),
               isInitialized_)
    /\ IF CheckInitialized(isInitialized_) = "none"
       THEN /\ logger_' = [logger_ EXCEPT !.level = l]
            /\ pc' = [pc EXCEPT !["main"] = "sl_sinks"]
            /\ lastSet' = [n |-> lastSet.n + 1, level |-> l, active |-> FALSE]
       ELSE UNCHANGED <<logger_, pc, lastSet>>
    /\ UNCHANGED <<env, flushWaits, isInitialized_, sinks_, heap,
                   defaultLogger, queue, wpc, wcur, pend, flushReq, recs,
                   retd, done, crashed, firstInit>>

\* Lines 327-329, one turn of the loop: sink->set_level(level) through a
\* spdlog::sink_ptr, so the base class's set_level.
SetSinkLevel ==
    /\ ~crashed
    /\ pc["main"] = "sl_sinks"
    /\ heap' = [heap EXCEPT ![sinks_[call.idx]] =
                    [set_level(@, call.arg) EXCEPT !.hist = Append(@, call.arg)]]
    /\ IF call.idx < Len(sinks_)
       THEN /\ call' = [call EXCEPT !.idx = @ + 1]
            /\ pc' = pc
       ELSE /\ call' = call
            /\ pc' = [pc EXCEPT !["main"] = "sl_info"]
    /\ UNCHANGED <<env, flushWaits, isInitialized_, logger_, sinks_,
                   defaultLogger, queue, wpc, wcur, pend, flushReq, recs,
                   retd, done, left, lastSet, crashed, firstInit>>

\* Line 330: spdlog::info through the default logger, the facade's.
SetLevelInfo ==
    /\ ~crashed
    /\ pc["main"] = "sl_info"
    /\ Submit("main", "info", <<"Log level changed to: ", call.arg>>,
              "flush")
    /\ flushReq' = [flushReq EXCEPT !.cont = "idle"]
    /\ UNCHANGED <<env, flushWaits, isInitialized_, logger_, sinks_,
                   defaultLogger, queue, wpc, wcur, call, left, lastSet,
                   crashed, firstInit>>

\* logger_->flush() (lines 332 and 344).  The async logger posts a flush
\* message (a blocking enqueue) and, in the spdlog releases whose flush is
\* synchronous, waits for the worker to handle it; a synchronous logger
\* flushes its sinks itself.
PostFlush ==
    /\ ~crashed
    /\ pc["main"] = "flush"
    /\ IF logger_.async
       THEN /\ HasRoom(queue)
            /\ queue' = Append(queue, [type |-> "flush", id |-> 0,
                                       level |-> "off"])
            /\ flushReq' = [flushReq EXCEPT !.pending = TRUE,
                                            !.before = InFlight]
            /\ IF flushWaits
               THEN /\ pc' = [pc EXCEPT !["main"] = "wait"]
                    /\ lastSet' = lastSet
               ELSE Return(flushReq.cont)
            /\ heap' = heap
       ELSE /\ heap' = FlushAll(heap, logger_.sinks)
            /\ flushReq' = [flushReq EXCEPT !.pending = FALSE, !.before = {}]
            /\ Return(flushReq.cont)
            /\ queue' = queue
    /\ UNCHANGED <<env, flushWaits, isInitialized_, logger_, sinks_,
                   defaultLogger, wpc, wcur, pend, call, recs, retd, done,
                   left, crashed, firstInit>>

\* future.get() of a synchronous flush: the worker has handled the request.
AwaitFlush ==
    /\ ~crashed
    /\ pc["main"] = "wait"
    /\ ~flushReq.pending
    /\ Return(flushReq.cont)
    /\ UNCHANGED <<env, flushWaits, isInitialized_, logger_, sinks_, heap,
                   defaultLogger, queue, wpc, wcur, pend, call, flushReq,
                   recs, retd, done, left, crashed, firstInit>>

\* LoggerFacade::shutdown, lines 338-344: each sink of sinks_ is flushed
\* by the caller, then the logger.  The application has stopped its other
\* producers before it shuts the logger down.
Shutdown ==
    /\ Calling("shutdown", "", "none", isInitialized_)
    /\ pc["app"] = "idle"
    /\ IF isInitialized_
       THEN /\ heap' = FlushAll(heap, sinks_)
            /\ pc' = [pc EXCEPT !["main"] = "flush"]
            /\ flushReq' = [flushReq EXCEPT !.cont = "sd"]
            /\ lastSet' = [lastSet EXCEPT !.active = FALSE]
       ELSE UNCHANGED <<heap, pc, flushReq, lastSet>>
    /\ UNCHANGED <<env, flushWaits, isInitialized_, logger_, sinks_,
                   defaultLogger, queue, wpc, wcur, pend, recs, retd, done,
                   crashed, firstInit>>

\* shutdown() without the sinks_.clear() of line 347.
Uninitialize_KeepSinks ==
    /\ logger_' = NullLogger
    /\ sinks_' = sinks_
    /\ isInitialized_' = FALSE
    /\ heap' = heap
    /\ wpc' = "none"
    /\ wcur' = NoMsg
    /\ queue' = << >>
    /\ recs' = << >>
    /\ retd' = {}
    /\ done' = {}
    /\ flushReq' = NoFlush
    /\ lastSet' = NoSet
    /\ pc' = [pc EXCEPT !["main"] = "idle"]

\* Lines 346-348, once spdlog::shutdown() is through: the facade is
\* uninitialized, the logger, its sinks and the pool are gone.
Uninitialize ==
    /\ logger_' = NullLogger
    /\ sinks_' = << >>
    /\ isInitialized_' = FALSE
    /\ heap' = << >>
    /\ wpc' = "none"
    /\ wcur' = NoMsg
    /\ queue' = << >>
    /\ recs' = << >>
    /\ retd' = {}
    /\ done' = {}
    /\ flushReq' = NoFlush
    /\ lastSet' = NoSet
    /\ pc' = [pc EXCEPT !["main"] = "idle"]

\* Line 345, spdlog::shutdown(): registry::drop_all() resets the default
\* logger, then the pool is destroyed: its destructor posts a terminate
\* message (a blocking enqueue) and joins the worker.
SpdlogShutdown ==
    /\ ~crashed
    /\ pc["main"] = "sd"
    /\ defaultLogger' = "null"
    /\ IF wpc = "none"
       THEN Uninitialize
       ELSE /\ HasRoom(queue)
            /\ queue' = Append(queue, [type |-> "terminate", id |-> 0,
                                       level |-> "off"])
            /\ pc' = [pc EXCEPT !["main"] = "join"]
            /\ UNCHANGED <<logger_, sinks_, isInitialized_, heap, wpc, wcur,
                           recs, retd, done, flushReq, lastSet>>
    /\ UNCHANGED <<env, flushWaits, pend, call, left, crashed, firstInit>>

\* A pool destructor that does not wait for its worker.
Join_NoWait ==
    /\ ~crashed
    /\ pc["main"] = "join"
    /\ Uninitialize
    /\ UNCHANGED <<env, flushWaits, defaultLogger, pend, call, left, crashed,
                   firstInit>>

\* The join of the pool's destructor returns when the worker has exited.
Join ==
    /\ ~crashed
    /\ pc["main"] = "join"
    /\ wpc = "exited"
    /\ Uninitialize
    /\ UNCHANGED <<env, flushWaits, defaultLogger, pend, call, left, crashed,
                   firstInit>>

\* ----------------------------------------------------------------- worker
\* A worker that takes the newest message.
Dequeue_Newest(q) == [msg |-> q[Len(q)], rest |-> SubSeq(q, 1, Len(q) - 1)]

\* thread_pool::process_next_msg_: the worker takes the oldest message.
Dequeue(q) == [msg |-> Head(q), rest |-> Tail(q)]

WorkerDequeue ==
    /\ ~crashed
    /\ wpc = "idle"
    /\ queue # << >>
    /\ \E d \in {Dequeue(queue)} :
          /\ queue' = d.rest
          /\ wcur' = [type |-> d.msg.type, id |-> d.msg.id,
                      level |-> d.msg.level, idx |-> 1, dec |-> << >>]
          /\ wpc' = IF d.msg.type = "log" THEN "deliver"
                    ELSE IF d.msg.type = "flush" THEN "flush"
                    ELSE "exited"
    /\ UNCHANGED <<env, flushWaits, isInitialized_, logger_, sinks_, heap,
                   defaultLogger, pc, pend, call, flushReq, recs, retd, done,
                   left, lastSet, crashed, firstInit>>

\* async_logger::backend_sink_it_, one turn of its loop over the logger's
\* sinks: sink->should_log(msg.level), then sink->log(msg).  dec keeps the
\* threshold each sink was read at.  After the last sink the worker goes
\* on, without leaving the function, to backend_flush_ (flush_on(trace),
\* line 291, makes every record flush) and the record is through.
WorkerDeliver ==
    /\ ~crashed
    /\ wpc = "deliver"
    /\ LET s == logger_.sinks[wcur.idx]
           thr == heap[s].level
           taken == [heap[s] EXCEPT !.got = Append(@, wcur.id)]
           logged == IF ~ShouldLog(wcur.level, thr) THEN heap
                     ELSE IF heap[s].kind = "udp"
                     THEN [heap EXCEPT ![s] =
                              UdpSink_log(taken, recs[wcur.id], logger_.name,
                                          env.network)]
                     ELSE [heap EXCEPT ![s] = taken]
       IN IF wcur.idx < Len(logger_.sinks)
          THEN /\ heap' = logged
               /\ wcur' = [wcur EXCEPT
                              !.idx = @ + 1,
                              !.dec = Append(@, [sink |-> s, thr |-> thr])]
               /\ wpc' = "deliver"
               /\ done' = done
          ELSE /\ heap' = FlushAll(logged, logger_.sinks)
               /\ wcur' = [wcur EXCEPT
                              !.type = "none",
                              !.dec = Append(@, [sink |-> s, thr |-> thr])]
               /\ wpc' = "idle"
               /\ done' = done \cup {wcur.id}
    /\ UNCHANGED <<env, flushWaits, isInitialized_, logger_, sinks_,
                   defaultLogger, queue, pc, pend, call, flushReq, recs, retd,
                   left, lastSet, crashed, firstInit>>

\* async_logger::backend_flush_ for a flush message: every sink of the
\* logger is flushed, and a caller waiting for the flush is released.
WorkerFlush ==
    /\ ~crashed
    /\ wpc = "flush"
    /\ heap' = FlushAll(heap, logger_.sinks)
    /\ flushReq' = [flushReq EXCEPT !.pending = FALSE]
    /\ wcur' = NoMsg
    /\ wpc' = "idle"
    /\ UNCHANGED <<env, flushWaits, isInitialized_, logger_, sinks_,
                   defaultLogger, queue, pc, pend, call, recs, retd, done,
                   left, lastSet, crashed, firstInit>>

\* ----------------------------------------------------------- specification
ModeChars == {"n", "f", "w", ","}

\* Every LOG_MODE value of at most n characters.
ModeStrings(n) == UNION {[1..k -> ModeChars] : k \in 0..n}

Env(mode, path, ip, port, level) ==
    [LOG_MODE |-> mode, LOG_FILE_PATH |-> path, LOG_NETWORK_IP |-> ip,
     LOG_NETWORK_PORT |-> port, LOG_LEVEL |-> level,
     LOG_FILE_SIZE_MB |-> Unset(<< >>),
     LOG_NIMBER_OF_LOG_FILES |-> Unset(<< >>),
     LOG_PATTERN |-> Unset(<< >>), LOG_UDP_FORMAT |-> Unset(""),
     network |-> "up"]

\* A working file and network configuration.
GoodPath == Value("/var/log/app.log")
GoodIp == Value("127.0.0.1")
GoodPort == Value(<<"9", "9", "9", "9">>)

\* The environments of the facade's specification: the mode lists that
\* mean none, one of each number of sinks with a working configuration, and
\* the broken configurations.
Environments ==
    {Env(m, GoodPath, GoodIp, GoodPort, Unset("")) :
        m \in {Unset(<< >>), Value(<< >>), Value(<<",">>), Value(<<"n">>),
               Value(<<"x">>), Value(<<"n", ",", "f">>),
               Value(<<"f", ",", "w">>)}}
    \cup
    {Env(Value(<<"f">>), p, GoodIp, GoodPort, Value("warn")) :
        p \in {Unset(""), Value("/proc/app.log")}}
    \cup
    {Env(Value(<<"w">>), GoodPath, GoodIp, port, Value("verbose")) :
        port \in {Value(<<"x">>), GoodPort}}

\* Console, file and network sink together.
PipeEnvironments ==
    {Env(Value(<<"f", ",", "w">>), GoodPath, GoodIp, GoodPort, Unset(""))}

InitWith(envs, calls, mainRecords, appRecords) ==
    /\ env \in envs
    /\ flushWaits \in BOOLEAN
    /\ isInitialized_ = FALSE
    /\ logger_ = NullLogger
    /\ sinks_ = << >>
    /\ heap = << >>
    /\ defaultLogger = "stdout"
    /\ queue = << >>
    /\ wpc = "none"
    /\ wcur = NoMsg
    /\ pc = [t \in Producers |-> "idle"]
    /\ pend = [t \in Producers |-> NoPend]
    /\ call = NoCall
    /\ flushReq = NoFlush
    /\ recs = << >>
    /\ retd = {}
    /\ done = {}
    /\ left = [main |-> mainRecords, app |-> appRecords, calls |-> calls]
    /\ lastSet = NoSet
    /\ crashed = FALSE
    /\ firstInit = NoInit

Init == InitWith(Environments, MaxCalls, 1, 0)

Next ==
    \/ \E fail \in FailPoints, ub \in NullDerefOutcomes : Initialize(fail, ub)
    \/ GetLogger
    \/ \E l \in SetLevels : SetLogLevel(l)
    \/ SetSinkLevel
    \/ SetLevelInfo
    \/ PostFlush
    \/ AwaitFlush
    \/ Shutdown
    \/ SpdlogShutdown
    \/ Join
    \/ \E t \in Producers, l \in RecordLevels : Log(t, l)
    \/ \E t \in Producers : Enqueue(t)
    \/ WorkerDequeue
    \/ WorkerDeliver
    \/ WorkerFlush

\* The facade's life cycle over the environments.
Spec == Init /\ [][Next]_vars

\* The pipeline under two producers.
InitPipe == InitWith(PipeEnvironments, 2, MaxRecords, 1)

SpecPipe == InitPipe /\ [][Next]_vars

\* Console and file sink behind the queue, one producer.
LiveEnvironments ==
    {Env(Value(<<"f">>), GoodPath, GoodIp, GoodPort, Unset(""))}

InitLive == InitWith(LiveEnvironments, 2, MaxRecords, 0)

\* The pool's worker thread runs whenever it has something to do, and a
\* caller waiting in enqueue gets the slot that is free for it.
Fairness ==
    /\ WF_vars(WorkerDequeue)
    /\ WF_vars(WorkerDeliver)
    /\ WF_vars(WorkerFlush)
    /\ \A t \in Producers : WF_vars(Enqueue(t))

\* The pipeline under a fair worker.
SpecLive == InitLive /\ [][Next]_vars /\ Fairness

\* ------------------------------------------------------------- properties
\* The main thread, once inside flush() or shutdown(), goes on whenever it
\* is not blocked.
CallFairness ==
    /\ WF_vars(PostFlush)
    /\ WF_vars(AwaitFlush)
    /\ WF_vars(SpdlogShutdown)
    /\ WF_vars(Join)

InitCalls == InitWith(Environments, 2, MaxRecords, 0)

\* The facade's calls under a fair worker and a main thread that goes on.
SpecCalls == InitCalls /\ [][Next]_vars /\ Fairness /\ CallFairness

\* Every LOG_MODE value of at most three characters, with a working file
\* and network configuration, and one list whose file sink cannot be built.
ModeEnvironments ==
    {Env(Value(m), GoodPath, GoodIp, GoodPort, Unset("")) :
        m \in ModeStrings(3)}
    \cup
    {Env(Value(<<"f", ",", "w">>), Unset(""), GoodIp, GoodPort, Unset(""))}

InitModes == InitWith(ModeEnvironments, 2, 1, 0)

\* The facade over the mode lists.
SpecModes == InitModes /\ [][Next]_vars

\* The network sink alone and before a file sink, under the default and a
\* bare pattern, each format, and a network that takes datagrams or not.
UdpEnv(mode, pattern, format, network) ==
    [Env(mode, GoodPath, GoodIp, GoodPort, Unset(""))
        EXCEPT !.LOG_PATTERN = pattern, !.LOG_UDP_FORMAT = format,
               !.network = network]

UdpEnvironments ==
    {UdpEnv(Value(<<"w">>), p, f, n) :
        p \in {Unset(<< >>), Value(<<"%v">>)},
        f \in {Unset(""), Value("json"), Value("plain"), Value("xml")},
        n \in {"up", "down"}}
    \cup
    {UdpEnv(Value(<<"w", ",", "f">>), Unset(<< >>), Unset(""), "down")}

InitUdp == InitWith(UdpEnvironments, 2, MaxRecords, 0)

\* The facade over the network sink's configurations.
SpecUdp == InitUdp /\ [][Next]_vars

\* The kinds of the sinks ss refers to in heap h.
Kinds(h, ss) == [i \in 1..Len(ss) |-> h[ss[i]].kind]

\* The facade is initialized by the catch block: sinks_ and the logger hold
\* different null sinks.
Degraded == isInitialized_ /\ logger_.sinks # sinks_

\* LOG_MODE as the environment gives it means none: it is unset, or holds
\* nothing but commas, or holds the one entry "none".
NoneConfigured ==
    LET v == IF env.LOG_MODE.set THEN env.LOG_MODE.val ELSE << >>
    IN SelectSeq(v, LAMBDA c : c # ",") \in {<< >>, ModeNone}

\* C1: whenever the facade is initialized, sinks_ holds at least one sink
\* and logger_ is defined; when no console, file or network sink was built,
\* the one sink of sinks_ is the null sink.
C1_AtLeastOneSink ==
    isInitialized_ =>
        /\ Len(sinks_) >= 1
        /\ Defined(logger_)
        /\ Len(logger_.sinks) >= 1
        /\ \A i \in 1..Len(sinks_) : sinks_[i] \in 1..Len(heap)
        /\ \A i \in 1..Len(logger_.sinks) : logger_.sinks[i] \in 1..Len(heap)
        /\ (\A i \in 1..Len(sinks_) :
               heap[sinks_[i]].kind \notin {"console", "file", "udp"})
           => Kinds(heap, sinks_) = <<"null">>

\* C1's case: initialized by the catch block, nothing but the null sink.
C1_Witness ==
    /\ Degraded
    /\ pc["main"] = "idle"
    /\ Kinds(heap, sinks_) = <<"null">>

\* An initialize() call that begins in this step, the facade uninitialized,
\* and in which an exception leaves the try block.
InitializeThrows ==
    /\ ~isInitialized_
    /\ left'["calls"] < left["calls"]
    /\ call'.op = "initialize"
    /\ call'.arg # "none"

\* C2: initialize() never passes an error to its caller: when an exception
\* leaves the try block, the partial state is discarded, sinks_ is exactly
\* one null sink, the logger delivers to a null sink only, and the facade
\* ends initialized.
C2_InitializeNeverFails ==
    [][InitializeThrows =>
          /\ ~crashed'
          /\ call'.error = "none"
          /\ isInitialized_'
          /\ Kinds(heap', sinks_') = <<"null">>
          /\ Defined(logger_')
          /\ \A i \in 1..Len(logger_'.sinks) :
                heap'[logger_'.sinks[i]].kind = "null"
          /\ \A i \in 1..Len(heap') : heap'[i].kind = "null"]_vars

\* C3: initialize(); shutdown(); initialize() is a restart: the second
\* initialize() completes without a crash and (the environment being the
\* same) leaves the sinks, thresholds and logger the first one left.
C3_Restart ==
    /\ ~crashed
    /\ (/\ firstInit.n >= 2
        /\ isInitialized_
        /\ call.op = "initialize"
        /\ call.arg = "none"
        /\ ~firstInit.caught
        /\ lastSet.n = 0)
       => Snapshot(logger_, sinks_, heap, FALSE) = [firstInit EXCEPT !.n = 1]

\* C4: when LOG_MODE means none, sinks_ after initialize() is exactly one
\* null sink, at threshold off as initialize() leaves it, no console, file
\* or network sink exists, and no record reaches such a sink, whatever
\* setLogLevel does afterwards.
C4_NoneMode ==
    (isInitialized_ /\ NoneConfigured) =>
        /\ Kinds(heap, sinks_) = <<"null">>
        /\ \A i \in 1..Len(heap) : heap[i].kind = "null"
        /\ (~Degraded /\ lastSet.n = 0) =>
               /\ logger_.level = "off"
               /\ heap[sinks_[1]].level = "off"
        /\ \A i \in 1..Len(heap) :
               heap[i].kind \in {"console", "file", "udp"}
                   => heap[i].got = << >>

\* C4's case: the mode is none, setLogLevel has lowered the threshold and a
\* record has passed it.
C4_Witness ==
    /\ isInitialized_
    /\ NoneConfigured
    /\ ~Degraded
    /\ lastSet.active
    /\ \E id \in done : recs[id].passed /\ recs[id].by = "main"
                        /\ recs[id].set.n >= 1

\* Record id has been handed to sink i of heap h.
InGot(h, i, id) == \E k \in 1..Len(h[i].got) : h[i].got[k] = id

\* The threshold of sink s of sinks_ once e - 1 setLogLevel calls are
\* through: the one it had, or the one the call under way is giving it.
ThresholdAt(s, e) ==
    IF e <= Len(heap[s].hist) THEN heap[s].hist[e] ELSE lastSet.level

\* C5: setLogLevel is atomic for a record in delivery: the sinks admit or
\* reject one record as under the thresholds of one moment, all from before
\* a setLogLevel call or all from after it.
C5_AtomicSetLevel ==
    wcur.dec # << >> =>
        \E e \in 1..(lastSet.n + 1) :
            \A k \in 1..Len(wcur.dec) :
                ShouldLog(wcur.level, wcur.dec[k].thr)
                    = ShouldLog(wcur.level, ThresholdAt(wcur.dec[k].sink, e))

\* C6: once setLogLevel(L) has returned, the logger and every sink of
\* sinks_ are at L; a record submitted from then on below L reaches no
\* sink; one at or above L, delivered before the next setLogLevel, has
\* reached every sink of sinks_ whose threshold admits it.
C6_SetLevelFilters ==
    /\ lastSet.active =>
          /\ logger_.level = lastSet.level
          /\ \A i \in 1..Len(sinks_) : heap[sinks_[i]].level = lastSet.level
    /\ \A id \in 1..Len(recs) :
          (recs[id].set.active /\ ~ShouldLog(recs[id].level, recs[id].set.level))
              => \A i \in 1..Len(heap) : ~InGot(heap, i, id)
    /\ \A id \in done :
          (/\ recs[id].set.active
           /\ recs[id].set = lastSet
           /\ ShouldLog(recs[id].level, lastSet.level))
              => \A i \in 1..Len(sinks_) :
                    ShouldLog(recs[id].level, heap[sinks_[i]].level)
                        => InGot(heap, sinks_[i], id)

\* A setLogLevel or getLogger call made in this step, the facade
\* uninitialized.
UninitializedCall ==
    /\ ~isInitialized_
    /\ call' # call
    /\ call'.op \in {"setLogLevel", "getLogger"}

\* C7: setLogLevel and getLogger on an uninitialized facade, before the
\* first initialize() or after a shutdown(), fail with the not-initialized
\* error and change nothing.
C7_NotInitialized ==
    [][UninitializedCall =>
          /\ call'.error = "not_initialized"
          /\ UNCHANGED <<isInitialized_, logger_, sinks_, heap, queue,
                         defaultLogger, pc>>]_vars

\* C7's case: setLogLevel refused after a shutdown().
C7_Witness ==
    /\ ~isInitialized_
    /\ firstInit.n >= 1
    /\ call.op = "setLogLevel"
    /\ call.error = "not_initialized"

\* Record a was submitted before record b: by the same thread earlier, or
\* its submit had returned when b's began.
Before(a, b) ==
    /\ a \in 1..Len(recs)
    /\ b \in 1..Len(recs)
    /\ \/ a \in recs[b].after
       \/ recs[a].by = recs[b].by /\ a < b

\* C8: each sink gets the records it gets in the order of their submission.
C8_Fifo ==
    \A s \in 1..Len(heap) :
        \A i, j \in 1..Len(heap[s].got) :
            i < j => ~Before(heap[s].got[j], heap[s].got[i])

\* C8's case: the file sink behind the queue holds two records of different
\* threads, one submitted before the other.
C8_Witness ==
    \E s \in 1..Len(heap) :
        \E i, j \in 1..Len(heap[s].got) :
            /\ logger_.async
            /\ heap[s].kind = "file"
            /\ i < j
            /\ Before(heap[s].got[i], heap[s].got[j])
            /\ recs[heap[s].got[i]].by # recs[heap[s].got[j]].by

\* The ids a run may give its records.
RecordIds == 1..(MaxRecords + MaxCalls + 1)

\* Every record that passed the logger's threshold is with its submitter,
\* in the queue, with the worker, or through.
NoLoss ==
    \A id \in 1..Len(recs) :
        recs[id].passed =>
            \/ id \in done
            \/ \E t \in Producers : pc[t] = "enq" /\ pend[t].id = id
            \/ \E k \in 1..Len(queue) :
                  queue[k].type = "log" /\ queue[k].id = id
            \/ wpc = "deliver" /\ wcur.id = id

\* C9: the queue never holds more than its capacity; a submitter that finds
\* it full stays blocked with its record; no record that passed the
\* logger's threshold is dropped, and under a fair worker each is
\* delivered.
C9_BoundedBlocking ==
    /\ [](Len(queue) <= QueueSize)
    /\ [][\A t \in Producers :
             (pc[t] = "enq" /\ Len(queue) >= QueueSize)
                 => (pc'[t] = "enq" /\ pend'[t] = pend[t])]_vars
    /\ []NoLoss
    /\ \A id \in RecordIds :
          (id <= Len(recs) /\ recs[id].passed) ~> (id \in done)

\* C9's case: the queue is full and a submitter waits for a slot.
C9_Witness ==
    /\ Len(queue) = QueueSize
    /\ \E t \in Producers : pc[t] = "enq"

\* C10: flush is synchronous: when logger_->flush() returns, the worker has
\* handled the flush request and every record submitted before it is
\* through.
C10_FlushSynchronous ==
    [][(pc["main"] \in {"flush", "wait"} /\ pc'["main"] \notin {"flush", "wait"})
          => (~flushReq'.pending /\ flushReq'.before \subseteq done')]_vars

\* shutdown() returns in this step.
ShutdownReturns == isInitialized_ /\ ~isInitialized_'

\* Sink s has admitted level lvl under every threshold it has had.
AdmitsAlways(s, lvl) ==
    /\ ShouldLog(lvl, heap[s].level)
    /\ \A k \in 1..Len(heap[s].hist) : ShouldLog(lvl, heap[s].hist[k])

\* C11: when shutdown() returns the worker has drained the queue: every
\* record that passed the logger before the call is through and in every
\* sink that admitted it, and the worker is not in the middle of a delivery.
C11_ShutdownDrains ==
    [][ShutdownReturns =>
          /\ wpc # "deliver"
          /\ wcur.type # "log"
          /\ \A k \in 1..Len(queue) : queue[k].type # "log"
          /\ \A id \in 1..Len(recs) :
                recs[id].passed =>
                    /\ id \in done
                    /\ \A i \in 1..Len(logger_.sinks) :
                          AdmitsAlways(logger_.sinks[i], recs[id].level)
                              => InGot(heap, logger_.sinks[i], id)]_vars

\* C11's case: records were still queued when shutdown() flushed, and the
\* worker has handled them and exited before shutdown() returns.
C11_Witness ==
    /\ pc["main"] = "join"
    /\ wpc = "exited"
    /\ logger_.async
    /\ flushReq.before # {}
    /\ flushReq.before \subseteq done

\* A shutdown() call made in this step, the facade uninitialized.
UninitializedShutdown ==
    /\ ~isInitialized_
    /\ call' # call
    /\ call'.op = "shutdown"

\* C12: shutdown() on an uninitialized facade changes nothing; on an
\* initialized one it completes, without error, and leaves the facade
\* uninitialized with sinks_ empty and no logger.
C12_ShutdownOnce ==
    /\ [][UninitializedShutdown =>
             /\ call'.error = "none"
             /\ UNCHANGED <<isInitialized_, logger_, sinks_, heap, queue,
                            defaultLogger, pc, wpc, recs>>]_vars
    /\ [][ShutdownReturns =>
             /\ call.op = "shutdown"
             /\ call.error = "none"
             /\ ~crashed'
             /\ sinks_' = << >>
             /\ ~Defined(logger_')
             /\ pc'["main"] = "idle"]_vars
    /\ (call.op = "shutdown" /\ isInitialized_) ~> ~isInitialized_

\* C12's case: shutdown() has returned from an initialized facade.
C12_Witness ==
    /\ ~isInitialized_
    /\ firstInit.n >= 1
    /\ call.op = "shutdown"
    /\ pc["main"] = "idle"
    /\ sinks_ = << >>

\* An initialize() call made in this step, the facade initialized.
RepeatedInitialize ==
    /\ isInitialized_
    /\ left'["calls"] < left["calls"]
    /\ call'.op = "initialize"

\* C13: initialize() on an initialized facade emits a warning and leaves
\* the logger, sinks_, every threshold, the queue and the worker as they
\* are.
C13_RepeatedInitialize ==
    [][RepeatedInitialize =>
          /\ UNCHANGED <<isInitialized_, logger_, sinks_, env, queue, wpc,
                         wcur, defaultLogger, flushReq, lastSet, firstInit>>
          /\ ~crashed'
          /\ Len(heap') = Len(heap)
          /\ \A i \in 1..Len(heap) :
                /\ heap'[i].kind = heap[i].kind
                /\ heap'[i].level = heap[i].level
                /\ heap'[i].ulevel = heap[i].ulevel
          /\ Len(recs') = Len(recs) + 1
          /\ recs'[Len(recs')].level = "warn"
          /\ recs'[Len(recs')].by = "main"]_vars

\* C13's case: initialize() was called after a setLogLevel, on an
\* initialized facade.
C13_Witness ==
    /\ isInitialized_
    /\ call.op = "initialize"
    /\ lastSet.n >= 1
    /\ pc["main"] = "idle"
    /\ \A i \in 1..Len(sinks_) : heap[sinks_[i]].level = lastSet.level

\* An initialize() call made in this step, the facade uninitialized, the
\* mode list not the sole none, and no exception leaving the try block.
OrdinaryInitialize ==
    /\ ~isInitialized_
    /\ left'["calls"] < left["calls"]
    /\ call'.op = "initialize"
    /\ call'.arg = "none"
    /\ ~NoneConfigured

\* The file sink cannot be built: LOG_FILE_PATH is unset, empty or not
\* writable.
FileFails ==
    \/ ~env.LOG_FILE_PATH.set
    \/ env.LOG_FILE_PATH.val = ""
    \/ ~FileWritable(env.LOG_FILE_PATH.val)

\* The network sink cannot be built: the host is empty or the port is 0.
NetworkFails ==
    \/ ~env.LOG_NETWORK_IP.set
    \/ env.LOG_NETWORK_IP.val = ""
    \/ loadFromEnv(env).networkPort = 0

\* Mode m is an entry of the mode list.
Listed(m) ==
    \E i \in 1..Len(LogModes(env.LOG_MODE)) : LogModes(env.LOG_MODE)[i] = m

\* sinks ss of heap h hold a sink of kind k.
HasKind(h, ss, k) == \E i \in 1..Len(ss) : h[ss[i]].kind = k

\* C14: a sink that cannot be built never disables the others or aborts
\* initialize(): whatever fails, initialize() returns with the facade
\* initialized, the console sink and every sink that could be built in
\* sinks_, the failed one absent, and the async logger bound to them.
C14_SinkFailureIsolated ==
    [][OrdinaryInitialize =>
          /\ ~crashed'
          /\ isInitialized_'
          /\ HasKind(heap', sinks_', "console")
          /\ logger_'.async
          /\ logger_'.sinks = sinks_'
          /\ HasKind(heap', sinks_', "file")
                <=> (Listed(ModeFile) /\ ~FileFails)
          /\ HasKind(heap', sinks_', "udp")
                <=> (Listed(ModeNetwork) /\ ~NetworkFails)]_vars

\* Variable v holds a number: digits and nothing else.
IsNumber(v) ==
    v.set /\ v.val # << >> /\ \A i \in 1..Len(v.val) : IsDigit(v.val[i])

\* Variable v is set to something that is not a positive number.
BadPositive(v) ==
    v.set /\ (~IsNumber(v) \/ \A i \in 1..Len(v.val) : v.val[i] = "0")

\* LOG_LEVEL is set to a name spdlog does not know.
BadLevel ==
    /\ env.LOG_LEVEL.set
    /\ env.LOG_LEVEL.val \notin {"trace", "debug", "info", "warn", "warning",
                                 "err", "error", "critical", "off"}

BadPort == env.LOG_NETWORK_PORT.set /\ ~IsNumber(env.LOG_NETWORK_PORT)

BadFormat ==
    env.LOG_UDP_FORMAT.set /\ env.LOG_UDP_FORMAT.val \notin {"json", "plain"}

\* How many of the configuration variables hold a malformed value.
Malformed ==
    Cardinality({w \in {<<1, BadPositive(env.LOG_FILE_SIZE_MB)>>,
                        <<2, BadPositive(env.LOG_NIMBER_OF_LOG_FILES)>>,
                        <<3, BadPort>>, <<4, BadFormat>>, <<5, BadLevel>>} :
                 w[2]})

\* C15: a malformed or unknown value of a configuration variable is
\* replaced by the variable's default, with one warning each: the default
\* size and count, port 0, format json, and the threshold debug for an
\* unknown LOG_LEVEL.
C15_ConfigDefaults ==
    (isInitialized_ /\ ~Degraded /\ ~NoneConfigured /\ lastSet.n = 0) =>
        \A cfg \in {loadFromEnv(env)} :
            /\ BadPositive(env.LOG_FILE_SIZE_MB)
                  => cfg.fileSizeMb = DefaultFileSizeMb
            /\ BadPositive(env.LOG_NIMBER_OF_LOG_FILES)
                  => cfg.numberOfLogFiles = DefaultNumberOfLogFiles
            /\ BadPort => cfg.networkPort = 0
            /\ BadFormat => cfg.udpFormat = "json"
            /\ BadLevel => logger_.level = "debug"
            /\ BadLevel =>
                  \A i \in 1..Len(sinks_) :
                      heap[sinks_[i]].kind \in {"console", "file"}
                          => heap[sinks_[i]].level = "debug"
            /\ cfg.warnings = Malformed

RECURSIVE ExpectedKinds(_)
\* The sinks a mode list asks for, in its order: one for every file or
\* network entry that can be built, none for any other entry.
ExpectedKinds(modes) ==
    IF modes = << >> THEN << >>
    ELSE (IF Head(modes) = ModeFile /\ ~FileFails THEN <<"file">>
          ELSE IF Head(modes) = ModeNetwork /\ ~NetworkFails THEN <<"udp">>
          ELSE << >>) \o ExpectedKinds(Tail(modes))

\* C17: for a mode list other than the sole none, sinks_ after
\* initialize() is the console sink followed by one sink of its own for
\* each file or network entry that could be built, in the list's order,
\* repeated entries included; a none among other modes or an unknown mode
\* adds nothing.
C17_SinkOrder ==
    (isInitialized_ /\ ~Degraded /\ ~NoneConfigured) =>
        /\ Kinds(heap, sinks_)
              = <<"console">> \o ExpectedKinds(LogModes(env.LOG_MODE))
        /\ \A i, j \in 1..Len(sinks_) : i # j => sinks_[i] # sinks_[j]
        /\ logger_.sinks = sinks_

\* C17's case: a repeated file entry has built two file sinks.
C17_Witness ==
    /\ isInitialized_
    /\ Kinds(heap, sinks_) = <<"console", "file", "file">>
    /\ sinks_[2] # sinks_[3]

\* The calling thread executes a sink's log() or flush() in this step, the
\* logger being the async one: the loop of shutdown() over sinks_, or any
\* step not the worker's that changes what a sink has got or written out.
CallerTouchesSink ==
    /\ logger_.async
    /\ \/ /\ isInitialized_
          /\ left'["calls"] < left["calls"]
          /\ call'.op = "shutdown"
       \/ /\ wpc' = wpc
          /\ wcur' = wcur
          /\ \E i \in 1..Len(heap) :
                /\ i <= Len(heap')
                /\ \/ heap'[i].got # heap[i].got
                   \/ heap'[i].flushed # heap[i].flushed

\* C18: once the pipeline runs, only the worker executes a sink's log() and
\* flush(): the calling thread never does while the worker is delivering a
\* record to the logger's sinks.
C18_WorkerOwnsSinks ==
    [][CallerTouchesSink => wpc # "deliver"]_vars

\* C20: between facade calls, isInitialized_ is true exactly when logger_
\* is non-null and sinks_ is non-empty; uninitialized, logger_ is null and
\* sinks_ is empty.
C20_FlagMatchesState ==
    pc["main"] = "idle" =>
        /\ isInitialized_ <=> (Defined(logger_) /\ sinks_ # << >>)
        /\ ~isInitialized_ => (~Defined(logger_) /\ sinks_ = << >>)

\* C20's case: the facade has been initialized again after a shutdown().
C20_Witness ==
    /\ pc["main"] = "idle"
    /\ isInitialized_
    /\ firstInit.n >= 2
    /\ Defined(logger_)
    /\ sinks_ # << >>

\* The UdpSink objects.
UdpSinks == {s \in DOMAIN heap : heap[s].kind = "udp"}

\* C16: a network sink with udp_format_ json that is handed the record
\* warn "test" sends one datagram for it, an object with exactly the keys
\* time, level, logger and message, whose level is "warn" and whose
\* message is "test", whatever the pattern.
C16_JsonPayload ==
    \A s \in UdpSinks :
        /\ Len(heap[s].sent) = Len(heap[s].got)
        /\ \A i \in 1..Len(heap[s].sent) :
              LET rec == recs[heap[s].got[i]]
                  payload == heap[s].sent[i].payload
              IN (/\ heap[s].format = "json"
                  /\ rec.level = "warn"
                  /\ rec.msg = <<"test">>)
                 => /\ DOMAIN payload = {"time", "level", "logger", "message"}
                    /\ payload.level = "warn"
                    /\ payload.message = <<"test">>

====
